---- MODULE Spec2Model ----
(***************************************************************************)
(* Character-level sequence-to-sequence notebook (lstm_seq2seq.ipynb): the *)
(* data preparation cell (load, vocabulary, one-hot vectorization), the    *)
(* reverse indices and the greedy decoding loop decode_sequence.           *)
(*                                                                         *)
(* Characters are their code points, strings are sequences of characters.  *)
(* Python indices are kept 0-based: a dict is a function on its keys, an   *)
(* array is a function on 0..n-1.  The trained networks are black boxes:   *)
(* a predict call returns any value of the right shape.                    *)
(***************************************************************************)
EXTENDS Integers, Sequences, FiniteSets, TLC

VARIABLES
    pc, error,
    lines, num_samples, li, input_text, target_text,
    input_texts, target_texts, input_characters, target_characters,
    num_encoder_tokens, num_decoder_tokens,
    max_encoder_seq_length, max_decoder_seq_length,
    input_token_index, target_token_index,
    encoder_input_data, decoder_input_data, decoder_target_data,
    i, t,
    reverse_input_char_index, reverse_target_char_index,
    seq_index, input_seq, demo_decoded_sentence,
    states_value, target_seq, stop_condition, decoded_sentence,
    output_tokens, h, c, sampled_token_index, sampled_char,
    encoder_states, predict_calls,
    data, weights, history, calls

dataVars == <<lines, num_samples, li, input_text, target_text,
              input_texts, target_texts, input_characters, target_characters,
              num_encoder_tokens, num_decoder_tokens,
              max_encoder_seq_length, max_decoder_seq_length,
              input_token_index, target_token_index,
              encoder_input_data, decoder_input_data, decoder_target_data,
              i, t>>

\* the reverse indices and the decoding demo loop
demoVars == <<reverse_input_char_index, reverse_target_char_index,
              seq_index, input_seq, demo_decoded_sentence>>

\* the locals of decode_sequence, the states the encoder returned to the call and
\* the number of predict calls the call has made
frameVars == <<states_value, target_seq, stop_condition, decoded_sentence,
               output_tokens, h, c, sampled_token_index, sampled_char,
               encoder_states, predict_calls>>

\* the content of the data file, the trained networks, the training loss
\* model.fit reported for each epoch (the output of the training cell), and the
\* argument and the result of every decode_sequence call that has returned
otherVars == <<data, weights, history, calls>>

vars == <<pc, error, dataVars, demoVars, frameVars, otherVars>>

---------------------------------------------------------------------------
(* Bounds of the model and the characters of the program.                  *)

MaxLines == 2
MaxChars == 4

TAB == 9
NEWLINE == 10
SPACE == 32

\* The characters texts are drawn from: the padding character and a letter.
Alphabet == {SPACE, 97}

\* A name that is not bound yet (the loop variable t before any loop ran, a
\* size or a length before its assignment).
Unbound == -1

---------------------------------------------------------------------------
(* Python built-ins.                                                       *)

Min(a, b) == IF a <= b THEN a ELSE b

RECURSIVE SetMin(_)
\* min(S) of a non-empty set of numbers
SetMin(S) ==
    LET x == CHOOSE y \in S : TRUE
    IN  IF S = {x} THEN x
        ELSE LET m == SetMin(S \ {x}) IN IF x <= m THEN x ELSE m

RECURSIVE SetMax(_)
\* max(S) of a non-empty set of numbers
SetMax(S) ==
    LET x == CHOOSE y \in S : TRUE
    IN  IF S = {x} THEN x
        ELSE LET m == SetMax(S \ {x}) IN IF x >= m THEN x ELSE m

RECURSIVE split(_, _)
\* str.split(sep): the pieces of s between the occurrences of sep
split(s, sep) ==
    IF \A k \in 1..Len(s) : s[k] # sep
    THEN <<s>>
    ELSE LET k == CHOOSE j \in 1..Len(s) :
                      s[j] = sep /\ \A m \in 1..(j - 1) : s[m] # sep
         IN  <<SubSeq(s, 1, k - 1)>> \o split(SubSeq(s, k + 1, Len(s)), sep)

\* the set of characters of a string
Chars(s) == {s[k] : k \in 1..Len(s)}

RECURSIVE sorted_Descending(_)
\* the characters of S in decreasing order
sorted_Descending(S) ==
    IF S = {} THEN <<>>
    ELSE LET m == CHOOSE x \in S : \A y \in S : x >= y
         IN  <<m>> \o sorted_Descending(S \ {m})

RECURSIVE sorted(_)
\* sorted(list(S)): the characters of S in increasing code-point order
sorted(S) ==
    IF S = {} THEN <<>>
    ELSE LET m == CHOOSE x \in S : \A y \in S : x <= y
         IN  <<m>> \o sorted(S \ {m})

\* dict([(char, i) for i, char in enumerate(characters)])
TokenIndex(characters) ==
    [ch \in Chars(characters) |->
        (CHOOSE k \in 1..Len(characters) : characters[k] = ch) - 1]

\* np.zeros((n, T, w)): example -> timestep -> token -> 0
zeros(n, T, w) == [e \in 0..(n - 1) |-> [s \in 0..(T - 1) |-> [k \in 0..(w - 1) |-> 0]]]

---------------------------------------------------------------------------
(* The data file: the pieces of f.read().split("\n").                      *)

RECURSIVE Texts(_)
\* the strings over Alphabet of length n
Texts(n) ==
    IF n = 0 THEN {<<>>}
    ELSE {<<ch>> \o s : ch \in Alphabet, s \in Texts(n - 1)}

\* a line "input<TAB>target<TAB>note" with an empty note
PairLine(inp, tgt) == inp \o <<TAB>> \o tgt \o <<TAB>>

\* lines that do not hold three fields: a blank line, a line with four fields
BadLines == {<<>>, <<TAB, TAB, TAB>>}

\* the lines holding a pair whose two texts have at most m characters together
PairLines(m) ==
    UNION {{PairLine(inp, tgt) : inp \in Texts(a), tgt \in Texts(b)} :
              <<a, b>> \in {p \in (0..m) \X (0..m) : p[1] + p[2] <= m}}

\* the number of text characters of a line
Cost(line) == Cardinality({k \in 1..Len(line) : line[k] # TAB})

RECURSIVE FilesWith(_, _)
\* the sequences of k lines holding at most m text characters together
FilesWith(k, m) ==
    IF k = 0 THEN {<<>>}
    ELSE UNION {{<<line>> \o rest : rest \in FilesWith(k - 1, m - Cost(line))} :
                   line \in PairLines(m) \cup BadLines}

\* the files of at most k lines and m text characters, each line ended by "\n":
\* their pieces, the last one empty
Files(k, m) == UNION {{body \o <<(<<>>)>> : body \in FilesWith(n, m)} : n \in 0..k}

\* the same files followed by one more pair that no "\n" ends
FilesOpen(k, m) == {Append(SubSeq(f, 1, Len(f) - 1), PairLine(<<SPACE>>, <<SPACE>>)) :
                       f \in Files(k, m)}

RECURSIVE join(_, _)
\* sep.join(pieces) of a non-empty list: the content of the file with these pieces
join(pieces, sep) ==
    IF Len(pieces) = 1 THEN pieces[1]
    ELSE pieces[1] \o <<sep>> \o join(Tail(pieces), sep)

---------------------------------------------------------------------------
(* Prepare the data: the loading loop.                                     *)

\* no call of decode_sequence is active: its locals do not exist
NoFrame ==
    /\ states_value = <<>>
    /\ target_seq = <<>>
    /\ stop_condition = FALSE
    /\ decoded_sentence = <<>>
    /\ output_tokens = <<>>
    /\ h = Unbound
    /\ c = Unbound
    /\ sampled_token_index = Unbound
    /\ sampled_char = Unbound
    /\ encoder_states = <<>>
    /\ predict_calls = [encoder |-> 0, decoder |-> 0]

InitWith(files, counts, nets) ==
    /\ pc = "read"
    /\ error = "none"
    /\ data \in {join(f, NEWLINE) : f \in files}
    /\ weights \in nets
    /\ history = <<>>
    /\ calls = <<>>
    /\ lines = <<>>
    /\ num_samples \in counts
    /\ li = 0
    /\ input_text = <<>>
    /\ target_text = <<>>
    /\ input_texts = <<>>
    /\ target_texts = <<>>
    /\ input_characters = {}
    /\ target_characters = {}
    /\ num_encoder_tokens = Unbound
    /\ num_decoder_tokens = Unbound
    /\ max_encoder_seq_length = Unbound
    /\ max_decoder_seq_length = Unbound
    /\ input_token_index = <<>>
    /\ target_token_index = <<>>
    /\ encoder_input_data = <<>>
    /\ decoder_input_data = <<>>
    /\ decoder_target_data = <<>>
    /\ i = 0
    /\ t = Unbound
    /\ reverse_input_char_index = <<>>
    /\ reverse_target_char_index = <<>>
    /\ seq_index = 0
    /\ input_seq = <<>>
    /\ demo_decoded_sentence = <<>>
    /\ NoFrame

\* lines = f.read().split("\n")
ReadFile ==
    /\ pc = "read"
    /\ lines' = split(data, NEWLINE)
    /\ pc' = "load"
    /\ UNCHANGED <<error, num_samples, li, input_text, target_text,
                   input_texts, target_texts, input_characters, target_characters,
                   num_encoder_tokens, num_decoder_tokens,
                   max_encoder_seq_length, max_decoder_seq_length,
                   input_token_index, target_token_index,
                   encoder_input_data, decoder_input_data, decoder_target_data,
                   i, t, demoVars, frameVars, otherVars>>

\* every piece, the final one included
NumLoaded_All == Min(num_samples, Len(lines))

\* the number of lines the loading loop iterates over
NumLoaded == Min(num_samples, Len(lines) - 1)

\* the start character alone: "\t" + target_text
Wrap_NoEndMarker(tgt) == <<TAB>> \o tgt

\* "\t" + target_text + "\n"
Wrap(tgt) == <<TAB>> \o tgt \o <<NEWLINE>>

\* one iteration of the loading loop on a line of three fields
LoadLine ==
    /\ pc = "load"
    /\ li < NumLoaded
    /\ LET fields == split(lines[li + 1], TAB)
       IN  /\ Len(fields) = 3
           /\ input_text' = fields[1]
           /\ target_text' = Wrap(fields[2])
           /\ input_texts' = Append(input_texts, fields[1])
           /\ target_texts' = Append(target_texts, Wrap(fields[2]))
           /\ input_characters' = input_characters \cup Chars(fields[1])
           /\ target_characters' = target_characters \cup Chars(Wrap(fields[2]))
    /\ li' = li + 1
    /\ UNCHANGED <<pc, error, lines, num_samples,
                   num_encoder_tokens, num_decoder_tokens,
                   max_encoder_seq_length, max_decoder_seq_length,
                   input_token_index, target_token_index,
                   encoder_input_data, decoder_input_data, decoder_target_data,
                   i, t, demoVars, frameVars, otherVars>>

\* a line that does not split into three fields is skipped
LoadFail_Skip ==
    /\ pc = "load"
    /\ li < NumLoaded
    /\ Len(split(lines[li + 1], TAB)) # 3
    /\ li' = li + 1
    /\ UNCHANGED <<pc, error, lines, num_samples, input_text, target_text,
                   input_texts, target_texts, input_characters, target_characters,
                   num_encoder_tokens, num_decoder_tokens,
                   max_encoder_seq_length, max_decoder_seq_length,
                   input_token_index, target_token_index,
                   encoder_input_data, decoder_input_data, decoder_target_data,
                   i, t, demoVars, frameVars, otherVars>>

\* the unpacking of a line that does not split into three fields raises
LoadFail ==
    /\ pc = "load"
    /\ li < NumLoaded
    /\ Len(split(lines[li + 1], TAB)) # 3
    /\ pc' = "error"
    /\ error' = "ValueError"
    /\ UNCHANGED <<dataVars, demoVars, frameVars, otherVars>>

\* sorted vocabularies and the sizes, after the loading loop
BuildVocabulary ==
    /\ pc = "load"
    /\ li = NumLoaded
    /\ input_characters' = sorted(input_characters)
    /\ target_characters' = sorted(target_characters)
    /\ num_encoder_tokens' = Cardinality(input_characters)
    /\ num_decoder_tokens' = Cardinality(target_characters)
    /\ IF input_texts = <<>>
       THEN \* max() of an empty list
            /\ pc' = "error"
            /\ error' = "ValueError"
            /\ UNCHANGED <<max_encoder_seq_length, max_decoder_seq_length>>
       ELSE /\ pc' = "index"
            /\ error' = error
            /\ max_encoder_seq_length' =
                   SetMax({Len(input_texts[k]) : k \in 1..Len(input_texts)})
            /\ max_decoder_seq_length' =
                   SetMax({Len(target_texts[k]) : k \in 1..Len(target_texts)})
    /\ UNCHANGED <<lines, num_samples, li, input_text, target_text,
                   input_texts, target_texts,
                   input_token_index, target_token_index,
                   encoder_input_data, decoder_input_data, decoder_target_data,
                   i, t, demoVars, frameVars, otherVars>>

\* the token indices and the three zero tensors
BuildIndex ==
    /\ pc = "index"
    /\ input_token_index' = TokenIndex(input_characters)
    /\ target_token_index' = TokenIndex(target_characters)
    /\ encoder_input_data' =
           zeros(Len(input_texts), max_encoder_seq_length, num_encoder_tokens)
    /\ decoder_input_data' =
           zeros(Len(input_texts), max_decoder_seq_length, num_decoder_tokens)
    /\ decoder_target_data' =
           zeros(Len(input_texts), max_decoder_seq_length, num_decoder_tokens)
    /\ pc' = "vectorize"
    /\ UNCHANGED <<error, lines, num_samples, li, input_text, target_text,
                   input_texts, target_texts, input_characters, target_characters,
                   num_encoder_tokens, num_decoder_tokens,
                   max_encoder_seq_length, max_decoder_seq_length, i, t,
                   demoVars, frameVars, otherVars>>

---------------------------------------------------------------------------
(* Prepare the data: the vectorization loop.  m is one example's matrix,   *)
(* timestep -> token -> value.                                             *)

\* for t, char in enumerate(text): m[t - shift, index[char]] = 1.0  (where t >= shift)
WriteChars(m, text, index, shift) ==
    [s \in DOMAIN m |-> [k \in DOMAIN m[s] |->
        IF /\ s + shift + 1 \in 1..Len(text)
           /\ index[text[s + shift + 1]] = k
        THEN 1 ELSE m[s][k]]]

\* m[start:, k] = 1.0
PadFrom(m, start, k) ==
    [s \in DOMAIN m |-> [j \in DOMAIN m[s] |->
        IF s >= start /\ j = k THEN 1 ELSE m[s][j]]]

\* the value of t after "for t, char in enumerate(text)" when it was tprev before
LoopVar(text, tprev) == IF Len(text) > 0 THEN Len(text) - 1 ELSE tprev

\* encoder_input_data[i, t, input_token_index[char]] = 1.0
EncoderChars(m, text, index) == WriteChars(m, text, index, 0)

\* decoder_input_data[i, t, target_token_index[char]] = 1.0
DecoderInputChars(m, text, index) == WriteChars(m, text, index, 0)

\* the target written at the timestep of its character, not one before
DecoderTargetChars_NoOffset(m, text, index) == WriteChars(m, text, index, 0)

\* if t > 0: decoder_target_data[i, t - 1, target_token_index[char]] = 1.0
DecoderTargetChars(m, text, index) == WriteChars(m, text, index, 1)

\* encoder_input_data[i, t + 1 :, input_token_index[" "]] = 1.0
EncoderPadding(m, tvar, index) == PadFrom(m, tvar + 1, index[SPACE])

\* decoder_input_data[i, t + 1 :, target_token_index[" "]] = 1.0
DecoderInputPadding(m, tvar, index) == PadFrom(m, tvar + 1, index[SPACE])

\* decoder_target_data[i, t:, target_token_index[" "]] = 1.0
DecoderTargetPadding(m, tvar, index) == PadFrom(m, tvar, index[SPACE])

\* the number of timesteps of one example's matrix
Steps(m) == Cardinality(DOMAIN m)

\* the exception the body of the vectorization loop raises on these texts, or
\* "none": a character written past the last timestep, t read before any loop
\* bound it, the space looked up in an index that does not hold it
VectorizeError(inp, tgt, tprev) ==
    IF Len(inp) > Steps(encoder_input_data[i]) THEN "IndexError"
    ELSE IF LoopVar(inp, tprev) = Unbound THEN "NameError"
    ELSE IF SPACE \notin DOMAIN input_token_index THEN "KeyError"
    ELSE IF Len(tgt) > Steps(decoder_input_data[i]) THEN "IndexError"
    ELSE IF SPACE \notin DOMAIN target_token_index THEN "KeyError"
    ELSE "none"

\* one iteration of the vectorization loop; i is the index of the next example
VectorizeExample ==
    /\ pc = "vectorize"
    /\ i < Len(input_texts)
    /\ LET inp == input_texts[i + 1]
           tgt == target_texts[i + 1]
           t1  == LoopVar(inp, t)
           t2  == LoopVar(tgt, t1)
       IN  /\ VectorizeError(inp, tgt, t) = "none"
           /\ input_text' = inp
           /\ target_text' = tgt
           /\ encoder_input_data' = [encoder_input_data EXCEPT ![i] =
                  EncoderPadding(EncoderChars(@, inp, input_token_index),
                                 t1, input_token_index)]
           /\ decoder_input_data' = [decoder_input_data EXCEPT ![i] =
                  DecoderInputPadding(DecoderInputChars(@, tgt, target_token_index),
                                      t2, target_token_index)]
           /\ decoder_target_data' = [decoder_target_data EXCEPT ![i] =
                  DecoderTargetPadding(DecoderTargetChars(@, tgt, target_token_index),
                                       t2, target_token_index)]
           /\ t' = t2
    /\ i' = i + 1
    /\ UNCHANGED <<pc, error, lines, num_samples, li,
                   input_texts, target_texts, input_characters, target_characters,
                   num_encoder_tokens, num_decoder_tokens,
                   max_encoder_seq_length, max_decoder_seq_length,
                   input_token_index, target_token_index, demoVars, frameVars, otherVars>>

\* an iteration of the vectorization loop that raises.  The writes made before
\* the failing statement stay, and t keeps the last value a loop gave it.
VectorizeFail ==
    /\ pc = "vectorize"
    /\ i < Len(input_texts)
    /\ LET inp == input_texts[i + 1]
           tgt == target_texts[i + 1]
           t1  == LoopVar(inp, t)
           t2  == LoopVar(tgt, t1)
           encSteps == Steps(encoder_input_data[i])
           decSteps == Steps(decoder_input_data[i])
           encoderFails == \/ Len(inp) > encSteps
                           \/ t1 = Unbound
                           \/ SPACE \notin DOMAIN input_token_index
       IN  /\ VectorizeError(inp, tgt, t) # "none"
           /\ error' = VectorizeError(inp, tgt, t)
           /\ input_text' = inp
           /\ target_text' = tgt
           /\ IF encoderFails
              THEN /\ t' = IF Len(inp) > encSteps THEN encSteps ELSE t1
                   /\ encoder_input_data' = [encoder_input_data EXCEPT ![i] =
                          EncoderChars(@, inp, input_token_index)]
                   /\ UNCHANGED <<decoder_input_data, decoder_target_data>>
              ELSE /\ t' = IF Len(tgt) > decSteps THEN decSteps ELSE t2
                   /\ encoder_input_data' = [encoder_input_data EXCEPT ![i] =
                          EncoderPadding(EncoderChars(@, inp, input_token_index),
                                         t1, input_token_index)]
                   /\ decoder_input_data' = [decoder_input_data EXCEPT ![i] =
                          DecoderInputChars(@, tgt, target_token_index)]
                   /\ decoder_target_data' = [decoder_target_data EXCEPT ![i] =
                          DecoderTargetChars(@, SubSeq(tgt, 1, Min(Len(tgt), decSteps)),
                                             target_token_index)]
    /\ pc' = "error"
    /\ UNCHANGED <<lines, num_samples, li, i,
                   input_texts, target_texts, input_characters, target_characters,
                   num_encoder_tokens, num_decoder_tokens,
                   max_encoder_seq_length, max_decoder_seq_length,
                   input_token_index, target_token_index, demoVars, frameVars, otherVars>>

---------------------------------------------------------------------------
(* Run inference: the reverse indices, the demo loop and decode_sequence.  *)

\* the text characters of the one-line files the whole notebook is run on
MaxCharsSmall == 2

\* range(20)
DemoRange == 20

\* the values a state vector of the networks is drawn from
StateVals == {0, 1}

\* the values an entry of the decoder's output distribution is drawn from
Scores == {0, 1}

\* every index mapped to the character of the next index
ReverseIndex_Shifted(token_index) ==
    LET n == Cardinality(DOMAIN token_index)
    IN  [k \in {token_index[ch] : ch \in DOMAIN token_index} |->
            CHOOSE ch \in DOMAIN token_index : token_index[ch] = (k + 1) % n]

\* dict((i, char) for char, i in token_index.items())
ReverseIndex(token_index) ==
    [k \in {token_index[ch] : ch \in DOMAIN token_index} |->
        CHOOSE ch \in DOMAIN token_index : token_index[ch] = k]

\* np.zeros((1, 1, n)) with entry k set to 1.0
OneHot(n, k) == [j \in 0..(n - 1) |-> IF j = k THEN 1 ELSE 0]

RECURSIVE ArgMaxScan(_, _, _)
\* the scan of np.argmax: best is the index of the largest entry before k
ArgMaxScan(v, k, best) ==
    IF k \notin DOMAIN v THEN best
    ELSE ArgMaxScan(v, k + 1, IF v[k] > v[best] THEN k ELSE best)

\* argmax taking the last of the largest entries
argmax_LastOnTies(v) ==
    CHOOSE k \in DOMAIN v :
        /\ \A j \in DOMAIN v : v[j] <= v[k]
        /\ \A j \in DOMAIN v : j > k => v[j] < v[k]

\* np.argmax(v) of a non-empty vector
argmax(v) == ArgMaxScan(v, 1, 0)

\* The trained networks.  weights = <<>> stands for any trained model: a predict
\* call may return every value of the right shape.  weights = <<w>> is one trained
\* model, whose two networks are fixed functions of their inputs; Nets is a small
\* family of such models.
AnyNet == {<<>>}
Nets == {<<w>> : w \in 0..3}

\* the encoder of model w on a batch of one example
EncoderNet(w, seq) ==
    LET m == seq[1]
        x == w + Cardinality({p \in (DOMAIN m) \X (0..(num_encoder_tokens - 1)) :
                                  m[p[1]][p[2]] = 1 /\ (p[1] + p[2]) % 2 = 0})
    IN  <<x % 2, (x \div 2) % 2>>

\* one step of the decoder of model w on a one-hot token and two state vectors
DecoderNet(w, seq, states) ==
    LET n == Cardinality(DOMAIN seq)
        k == CHOOSE j \in DOMAIN seq : seq[j] = 1
        x == w + k + 2 * states[1] + states[2]
    IN  [output_tokens |-> [j \in DOMAIN seq |->
                               IF j = x % n \/ j = (x \div 2 + 1) % n THEN 1 ELSE 0],
         h |-> (states[2] + w) % 2,
         c |-> (states[1] + k + 1) % 2]

\* encoder_model.predict(input_seq): a pair of state vectors
encoder_model_predict(seq) ==
    IF weights = <<>> THEN StateVals \X StateVals
    ELSE {EncoderNet(weights[1], seq)}

\* decoder_model.predict([target_seq] + states_value): an output distribution
\* over the target vocabulary and a pair of state vectors
decoder_model_predict(seq, states) ==
    IF weights = <<>>
    THEN [output_tokens : [DOMAIN seq -> Scores], h : StateVals, c : StateVals]
    ELSE {DecoderNet(weights[1], seq, states)}

\* an exit condition without the length cap
ExitCondition_NoCap(char, sentence) == char = NEWLINE

\* an exit condition without the end marker
ExitCondition_NoEndMarker(char, sentence) == Len(sentence) > max_decoder_seq_length

\* sampled_char == "\n" or len(decoded_sentence) > max_decoder_seq_length
ExitCondition(char, sentence) ==
    char = NEWLINE \/ Len(sentence) > max_decoder_seq_length

\* target_seq = np.zeros((1, 1, num_decoder_tokens)); target_seq[0, 0, index] = 1.0
NextTargetSeq(index) == OneHot(num_decoder_tokens, index)

\* the states in the wrong order
NextStates_Swapped(hh, cc) == <<cc, hh>>

\* states_value = [h, c]
NextStates(hh, cc) == <<hh, cc>>

\* epochs = 100
epochs == 100

\* the "loss:" model.fit printed for each epoch of the recorded run, in 1/10000
RecordedLoss ==
    <<11588, 8334, 6777, 5793, 5308, 4950, 4664, 4433, 4227, 4041,
      3872, 3715, 3567, 3434, 3305, 3179, 3066, 2953, 2852, 2747,
      2654, 2561, 2479, 2390, 2313, 2238, 2169, 2099, 2033, 1971,
      1911, 1848, 1794, 1743, 1695, 1645, 1597, 1554, 1509, 1469,
      1434, 1393, 1360, 1322, 1289, 1259, 1230, 1201, 1170, 1144,
      1115, 1089, 1067, 1041, 1021, 998, 976, 954, 936, 920,
      900, 877, 860, 847, 829, 815, 802, 783, 770, 757,
      744, 734, 718, 707, 682, 684, 670, 660, 651, 635,
      626, 619, 609, 598, 593, 582, 575, 563, 555, 546,
      541, 533, 525, 517, 509, 503, 498, 492, 484, 478>>

\* a run in which the loss falls at every epoch: the recorded one with the
\* losses of epochs 75 and 76 exchanged
DecreasingLoss == [RecordedLoss EXCEPT ![75] = RecordedLoss[76], ![76] = RecordedLoss[75]]

\* model.fit is keras' stochastic optimiser: the losses it reports depend on the
\* data, the initial weights and the shuffling, none of which the notebook
\* fixes, so a run is any sequence of one loss per epoch.  LossRuns samples
\* them: the run the notebook recorded and a run that falls at every epoch.
LossRuns == {RecordedLoss, DecreasingLoss}

\* the number of samples validation_split = 0.2 leaves for training
TrainingSamples == (Len(input_texts) * 4) \div 5

\* model.compile, model.fit over all epochs and model.save, once every example
\* is vectorized: fit reports one loss per epoch
Fit ==
    /\ pc = "vectorize"
    /\ i = Len(input_texts)
    /\ \E run \in LossRuns : history' = run
    /\ pc' = "trained"
    /\ UNCHANGED <<error, dataVars, demoVars, frameVars, data, weights, calls>>

\* model.fit refuses the data: the validation split leaves no sample to train
\* on.  Whether it raises depends on the keras version, so for such data both
\* Fit and FitFail can happen.
FitFail ==
    /\ pc = "vectorize"
    /\ i = Len(input_texts)
    /\ TrainingSamples = 0
    /\ pc' = "error"
    /\ error' = "ValueError"
    /\ UNCHANGED <<dataVars, demoVars, frameVars, otherVars>>

\* the sampling models and the reverse indices, from the reloaded model
DefineSamplingModels ==
    /\ pc = "trained"
    /\ reverse_input_char_index' = ReverseIndex(input_token_index)
    /\ reverse_target_char_index' = ReverseIndex(target_token_index)
    /\ pc' = "demo"
    /\ UNCHANGED <<error, dataVars, seq_index, input_seq, demo_decoded_sentence,
                   frameVars, otherVars>>

\* a call that starts from the last character of the previous call's result
\* instead of the start character
DecodeCall_Resumes ==
    /\ pc = "demo"
    /\ seq_index < DemoRange
    /\ seq_index < Len(input_texts)
    /\ input_seq' = <<encoder_input_data[seq_index]>>
    /\ \E states \in encoder_model_predict(input_seq') :
           /\ states_value' = states
           /\ encoder_states' = states
    /\ target_seq' = OneHot(num_decoder_tokens,
                            target_token_index[IF demo_decoded_sentence = <<>> THEN TAB
                                               ELSE demo_decoded_sentence[1]])
    /\ stop_condition' = FALSE
    /\ decoded_sentence' = <<>>
    /\ predict_calls' = [encoder |-> 1, decoder |-> 0]
    /\ pc' = "decode"
    /\ UNCHANGED <<error, dataVars, reverse_input_char_index,
                   reverse_target_char_index, seq_index, demo_decoded_sentence,
                   output_tokens, h, c, sampled_token_index, sampled_char,
                   otherVars>>

\* the demo loop calls decode_sequence, which runs up to its sampling loop
DecodeCall ==
    /\ pc = "demo"
    /\ seq_index < DemoRange
    /\ seq_index < Len(input_texts)
    /\ input_seq' = <<encoder_input_data[seq_index]>>
    /\ \E states \in encoder_model_predict(input_seq') :
           /\ states_value' = states
           /\ encoder_states' = states
    /\ target_seq' = OneHot(num_decoder_tokens, target_token_index[TAB])
    /\ stop_condition' = FALSE
    /\ decoded_sentence' = <<>>
    /\ predict_calls' = [encoder |-> 1, decoder |-> 0]
    /\ pc' = "decode"
    /\ UNCHANGED <<error, dataVars, reverse_input_char_index,
                   reverse_target_char_index, seq_index, demo_decoded_sentence,
                   output_tokens, h, c, sampled_token_index, sampled_char,
                   otherVars>>

\* one iteration of the sampling loop
DecoderStep ==
    /\ pc = "decode"
    /\ ~stop_condition
    /\ \E out \in decoder_model_predict(target_seq, states_value) :
           LET index    == argmax(out.output_tokens)
               char     == reverse_target_char_index[index]
               sentence == Append(decoded_sentence, char)
           IN  /\ output_tokens' = out.output_tokens
               /\ h' = out.h
               /\ c' = out.c
               /\ sampled_token_index' = index
               /\ sampled_char' = char
               /\ decoded_sentence' = sentence
               /\ stop_condition' = ExitCondition(char, sentence)
               /\ target_seq' = NextTargetSeq(index)
               /\ states_value' = NextStates(out.h, out.c)
    /\ predict_calls' = [predict_calls EXCEPT !.decoder = @ + 1]
    /\ UNCHANGED <<pc, error, dataVars, demoVars, encoder_states, otherVars>>

\* decode_sequence returns to the demo loop, which prints and goes on
DecodeReturn ==
    /\ pc = "decode"
    /\ stop_condition
    /\ demo_decoded_sentence' = decoded_sentence
    /\ calls' = Append(calls, [input_seq |-> input_seq, decoded |-> decoded_sentence])
    /\ seq_index' = seq_index + 1
    /\ pc' = "demo"
    /\ states_value' = <<>>
    /\ target_seq' = <<>>
    /\ stop_condition' = FALSE
    /\ decoded_sentence' = <<>>
    /\ output_tokens' = <<>>
    /\ h' = Unbound
    /\ c' = Unbound
    /\ sampled_token_index' = Unbound
    /\ sampled_char' = Unbound
    /\ encoder_states' = <<>>
    /\ predict_calls' = [encoder |-> 0, decoder |-> 0]
    /\ UNCHANGED <<error, dataVars, reverse_input_char_index,
                   reverse_target_char_index, input_seq, data, weights, history>>

\* the demo loop goes past the loaded examples: the slice is an empty batch and
\* predict raises on it
DemoFail ==
    /\ pc = "demo"
    /\ seq_index < DemoRange
    /\ seq_index >= Len(input_texts)
    /\ input_seq' = <<>>
    /\ pc' = "error"
    /\ error' = "ValueError"
    /\ UNCHANGED <<dataVars, reverse_input_char_index, reverse_target_char_index,
                   seq_index, demo_decoded_sentence, frameVars, otherVars>>

\* the data preparation cell
PrepareNext ==
    \/ ReadFile
    \/ LoadLine
    \/ LoadFail
    \/ BuildVocabulary
    \/ BuildIndex
    \/ VectorizeExample
    \/ VectorizeFail

DataInit ==
    InitWith(Files(MaxLines, MaxChars) \cup FilesOpen(MaxLines - 1, MaxChars),
             1..MaxLines, AnyNet)

DataSpec == DataInit /\ [][PrepareNext]_vars

\* the whole notebook
Next ==
    \/ PrepareNext
    \/ Fit
    \/ FitFail
    \/ DefineSamplingModels
    \/ DecodeCall
    \/ DecoderStep
    \/ DecodeReturn
    \/ DemoFail

\* the file holds no letter: its texts are made of spaces
IsBlank(file) ==
    \A k \in 1..Len(file) : Chars(file[k]) \subseteq {TAB, SPACE}

\* the files of at most one line whose texts are made of spaces, the character
\* every text must hold for the vectorization to pass, with num_samples above
\* their line count
Init == InitWith({file \in Files(1, MaxCharsSmall) : IsBlank(file)}, {1}, AnyNet)

Spec == Init /\ [][Next]_vars

\* the script is one sequential thread: it runs as long as a statement is left
LiveSpec == Spec /\ WF_vars(Next)

\* the whole notebook with a trained model of the family Nets, on the files of at
\* most three lines, all of them loaded
TrainedInit == InitWith(Files(3, MaxChars), {3}, Nets)

TrainedSpec == TrainedInit /\ [][Next]_vars

---------------------------------------------------------------------------
(* Properties of decode_sequence.                                          *)

\* a call of decode_sequence has returned: demo_decoded_sentence is its result
Returned == pc \in {"demo", "error"} /\ seq_index > 0

\* the decoder model has just run one more step
DecoderStepped == predict_calls'.decoder = predict_calls.decoder + 1

\* k is the lowest index among the largest entries of v
IsArgMax(v, k) ==
    /\ k \in DOMAIN v
    /\ \A j \in DOMAIN v : v[j] <= v[k]
    /\ \A j \in DOMAIN v : j < k => v[j] < v[k]

\* the end marker occurs in s at most once and only as the last character
EndMarkerOnlyLast(s) == \A k \in 1..Len(s) : s[k] = NEWLINE => k = Len(s)

\* C1: the string decode_sequence returns is non-empty and either ends with the
\* end marker or has exactly max_decoder_seq_length characters (it was cut at
\* the length cap).
C1_EndsOrTruncated ==
    Returned =>
        /\ Len(demo_decoded_sentence) > 0
        /\ \/ demo_decoded_sentence[Len(demo_decoded_sentence)] = NEWLINE
           \/ Len(demo_decoded_sentence) = max_decoder_seq_length

\* C2: the string decode_sequence returns never has more than
\* max_decoder_seq_length characters.
C2_LengthCap ==
    Returned => Len(demo_decoded_sentence) <= max_decoder_seq_length

\* C3: every call of decode_sequence returns, whatever the decoder outputs, after
\* at most max_decoder_seq_length + 1 decoder steps.
C3_Terminates ==
    /\ [](pc = "decode" => predict_calls.decoder <= max_decoder_seq_length + 1)
    /\ ((pc = "decode") ~> (pc = "demo"))

\* C3 witness: a call has returned although the decoder never emitted the end marker
C3_Witness ==
    /\ Returned
    /\ \A k \in 1..Len(demo_decoded_sentence) : demo_decoded_sentence[k] # NEWLINE

\* C4: every decoder step appends exactly one character, the character of the
\* sorted target vocabulary at the lowest index among the largest entries of the
\* output distribution of that step.
C4_Greedy ==
    [][DecoderStepped =>
          \E k \in 0..(num_decoder_tokens - 1) :
              /\ IsArgMax(output_tokens', k)
              /\ decoded_sentence' = Append(decoded_sentence, target_characters[k + 1])]_vars

\* C4 witness: a step whose output distribution had a tie for the largest entry
C4_Witness ==
    /\ pc = "decode"
    /\ predict_calls.decoder >= 2
    /\ \E j \in DOMAIN output_tokens :
           /\ j > sampled_token_index
           /\ output_tokens[j] = output_tokens[sampled_token_index]
           /\ output_tokens[j] > output_tokens[0]

\* C5: within a call the encoder has run exactly once; the decoder step to come
\* is given the one-hot of the start character and the encoder's two state
\* vectors when it is the first, and otherwise the one-hot of the token sampled
\* by the step before and the states (h, c) that step returned.
C5_Feedback ==
    pc = "decode" =>
        /\ predict_calls.encoder = 1
        /\ DOMAIN target_seq = 0..(num_decoder_tokens - 1)
        /\ IF predict_calls.decoder = 0
           THEN /\ \A j \in DOMAIN target_seq :
                       target_seq[j] = IF target_characters[j + 1] = TAB THEN 1 ELSE 0
                /\ states_value = encoder_states
           ELSE /\ \A j \in DOMAIN target_seq :
                       target_seq[j] = IF j = sampled_token_index THEN 1 ELSE 0
                /\ states_value = <<h, c>>

\* C5 witness: a later step is about to run on states that differ from the
\* encoder's, with h and c different
C5_Witness ==
    /\ pc = "decode"
    /\ ~stop_condition
    /\ predict_calls.decoder >= 2
    /\ states_value # encoder_states
    /\ h # c
    /\ sampled_char # TAB

\* C6: once the end marker is sampled the loop stops, so the end marker occurs
\* at most once, as the last character, in the sentence being decoded and in
\* every returned string.
C6_StopsOnEndMarker ==
    /\ pc = "decode" =>
           /\ EndMarkerOnlyLast(decoded_sentence)
           /\ (sampled_char = NEWLINE => stop_condition)
    /\ Returned => EndMarkerOnlyLast(demo_decoded_sentence)

\* C6 witness: a call returned on the end marker before the length cap
C6_Witness ==
    /\ Returned
    /\ Len(demo_decoded_sentence) \in 2..(max_decoder_seq_length - 1)
    /\ demo_decoded_sentence[Len(demo_decoded_sentence)] = NEWLINE

---------------------------------------------------------------------------
(* Properties of the prepared data.                                        *)

\* the vectorization loop has run over every loaded example
Vectorized == pc = "vectorize" /\ i = Len(input_texts)

\* the timesteps of the encoder tensor and of the two decoder tensors
EncoderSteps == 0..(max_encoder_seq_length - 1)
DecoderSteps == 0..(max_decoder_seq_length - 1)

\* exactly one entry of the row is 1.0 and the others are zero
IsOneHot(row) ==
    /\ \A k \in DOMAIN row : row[k] \in {0, 1}
    /\ Cardinality({k \in DOMAIN row : row[k] = 1}) = 1

\* the row has entry k set to 1.0 and zeros elsewhere
IsOneHotOf(row, k) == \A j \in DOMAIN row : row[j] = IF j = k THEN 1 ELSE 0

\* the distinct characters of a list of texts
CharsOf(texts) == UNION {Chars(texts[k]) : k \in 1..Len(texts)}

\* C7: in every vectorized example decoder_target_data at timestep s equals
\* decoder_input_data at timestep s + 1, and the start character is set in no
\* row of decoder_target_data.
C7_TeacherForcingOffset ==
    pc = "vectorize" =>
        /\ \A e \in 0..(i - 1) : \A s \in DecoderSteps :
               s + 1 \in DecoderSteps =>
                   decoder_target_data[e][s] = decoder_input_data[e][s + 1]
        /\ \A e \in DOMAIN decoder_target_data : \A s \in DecoderSteps :
               decoder_target_data[e][s][target_token_index[TAB]] = 0

\* C7 witness: two examples are vectorized, one with a target text shorter than
\* the longest and one holding a letter
C7_Witness ==
    /\ Vectorized
    /\ Len(target_texts) = 2
    /\ Len(target_texts[2]) < max_decoder_seq_length
    /\ 97 \in Chars(target_texts[1])
    /\ decoder_target_data[0][0][target_token_index[97]] = 1

\* C8: after vectorization every row of the three tensors holds exactly one
\* 1.0, and at a timestep inside the text it is at the index of the text's
\* character.
C8_OneHot ==
    Vectorized =>
        \A e \in 0..(Len(input_texts) - 1) :
            /\ \A s \in EncoderSteps :
                   /\ IsOneHot(encoder_input_data[e][s])
                   /\ s < Len(input_texts[e + 1]) =>
                          encoder_input_data[e][s][input_token_index[input_texts[e + 1][s + 1]]] = 1
            /\ \A s \in DecoderSteps :
                   /\ IsOneHot(decoder_input_data[e][s])
                   /\ IsOneHot(decoder_target_data[e][s])
                   /\ s < Len(target_texts[e + 1]) =>
                          decoder_input_data[e][s][target_token_index[target_texts[e + 1][s + 1]]] = 1
                   /\ s + 1 < Len(target_texts[e + 1]) =>
                          decoder_target_data[e][s][target_token_index[target_texts[e + 1][s + 2]]] = 1

\* C9: after vectorization every timestep at or beyond the end of an example's
\* text is the one-hot of the space character and every timestep inside the
\* text is the one-hot of its character, for every example.
C9_SpacePadding ==
    Vectorized =>
        \A e \in 0..(Len(input_texts) - 1) :
            LET inp == input_texts[e + 1]
                tgt == target_texts[e + 1]
            IN  /\ \A s \in EncoderSteps :
                       IsOneHotOf(encoder_input_data[e][s],
                                  input_token_index[IF s < Len(inp) THEN inp[s + 1] ELSE SPACE])
                /\ \A s \in DecoderSteps :
                       /\ IsOneHotOf(decoder_input_data[e][s],
                                     target_token_index[IF s < Len(tgt) THEN tgt[s + 1] ELSE SPACE])
                       /\ IsOneHotOf(decoder_target_data[e][s],
                                     target_token_index[IF s < Len(tgt) - 1 THEN tgt[s + 2] ELSE SPACE])

\* the list holds exactly the characters of S in increasing order, index maps
\* the k-th of them to k (from 0), and n is their number
IsVocabulary(characters, index, n, S) ==
    /\ Chars(characters) = S
    /\ \A k \in 1..(Len(characters) - 1) : characters[k] < characters[k + 1]
    /\ DOMAIN index = S
    /\ \A k \in 1..Len(characters) : index[characters[k]] = k - 1
    /\ {index[ch] : ch \in S} = 0..(n - 1)
    /\ n = Cardinality(S)

\* C10: each side's vocabulary is the sorted list of the distinct characters of
\* that side's loaded texts, its token index maps the k-th character to k, and
\* the one-hot width of that side's tensors is the vocabulary size.
C10_VocabularyIndexing ==
    pc = "vectorize" =>
        /\ IsVocabulary(input_characters, input_token_index, num_encoder_tokens,
                        CharsOf(input_texts))
        /\ IsVocabulary(target_characters, target_token_index, num_decoder_tokens,
                        CharsOf(target_texts))
        /\ \A e \in DOMAIN encoder_input_data :
               /\ \A s \in EncoderSteps :
                      DOMAIN encoder_input_data[e][s] = 0..(num_encoder_tokens - 1)
               /\ \A s \in DecoderSteps :
                      /\ DOMAIN decoder_input_data[e][s] = 0..(num_decoder_tokens - 1)
                      /\ DOMAIN decoder_target_data[e][s] = 0..(num_decoder_tokens - 1)

\* C10 witness: two input texts sharing a character were loaded, with two
\* distinct input characters and a target vocabulary of the markers and the space
C10_Witness ==
    /\ Vectorized
    /\ Len(input_texts) = 2
    /\ Chars(input_texts[1]) \cap Chars(input_texts[2]) # {}
    /\ num_encoder_tokens = 2
    /\ num_decoder_tokens = 3

\* model.fit has returned and reported its losses
Trained == history # <<>>

\* C11: over the epochs of model.fit the reported training loss decreases from
\* every epoch to the next.
C11_LossDecreasesEveryEpoch ==
    Trained =>
        /\ Len(history) = epochs
        /\ \A epoch \in 1..(epochs - 1) : history[epoch + 1] < history[epoch]

\* the characters collected for a vocabulary so far: a set until the loading
\* loop is over, also when it raised, and a sorted list from then on, which is
\* when the sizes are bound
VocabularyOf(characters) ==
    IF num_encoder_tokens = Unbound THEN characters ELSE Chars(characters)

\* the text has the start character first, the end character last and neither
\* of them in between
IsMarked(text) ==
    /\ Len(text) >= 2
    /\ text[1] = TAB
    /\ text[Len(text)] = NEWLINE
    /\ \A k \in 2..(Len(text) - 1) : text[k] \notin {TAB, NEWLINE}

\* C12: every loaded target text begins with the start character (tab), ends
\* with the end character (newline) and holds neither marker in between, no
\* input text holds a marker, and the target vocabulary holds both markers as
\* soon as one pair is loaded.
C12_Markers ==
    /\ \A k \in 1..Len(target_texts) : IsMarked(target_texts[k])
    /\ \A k \in 1..Len(input_texts) : Chars(input_texts[k]) \cap {TAB, NEWLINE} = {}
    /\ Len(target_texts) >= 1 =>
           {TAB, NEWLINE} \subseteq VocabularyOf(target_characters)
    /\ (pc = "vectorize" /\ Len(target_texts) >= 1) =>
           {TAB, NEWLINE} \subseteq DOMAIN target_token_index

\* C12 witness: two pairs were loaded, one with a one-character input and a
\* non-empty target, from a file that also holds a third piece, and the
\* vocabularies are built
C12_Witness ==
    /\ pc = "vectorize"
    /\ Len(target_texts) = 2
    /\ Len(lines) = 3
    /\ \E k \in 1..2 : Len(target_texts[k]) > 2 /\ Len(input_texts[k]) = 1

\* the n-th piece (from 1) of s between the occurrences of sep, read off the
\* positions of sep in s
Field(s, sep, n) ==
    LET at == {k \in 1..Len(s) : s[k] = sep}
        nth(m) == IF m = 0 THEN 0
                  ELSE IF m > Cardinality(at) THEN Len(s) + 1
                  ELSE CHOOSE p \in at : Cardinality({q \in at : q < p}) = m - 1
    IN  SubSeq(s, nth(n - 1) + 1, nth(n) - 1)

\* the number of pieces of s between the occurrences of sep
NumFields(s, sep) == 1 + Cardinality({k \in 1..Len(s) : s[k] = sep})

\* C13: the loader processes the first min(num_samples, L - 1) newline-separated
\* pieces of the file in file order, L being their number, so never the final
\* piece; input_texts and target_texts have the same length and their k-th
\* entries are the first field and the wrapped second field of the k-th piece.
C13_SampleSelection ==
    LET L == NumFields(data, NEWLINE)
        n == Min(num_samples, L - 1)
    IN  /\ Len(input_texts) = Len(target_texts)
        /\ Len(input_texts) = li
        /\ li <= n
        /\ li < L
        /\ \A k \in 1..li :
               /\ input_texts[k] = Field(Field(data, NEWLINE, k), TAB, 1)
               /\ target_texts[k] =
                      <<TAB>> \o Field(Field(data, NEWLINE, k), TAB, 2) \o <<NEWLINE>>
        /\ pc \in {"index", "vectorize"} => li = n
        /\ (pc = "error" /\ li < n) => NumFields(Field(data, NEWLINE, li + 1), TAB) # 3

\* C13 witness: the file ends without a newline in a well-formed pair, which
\* num_samples would admit, and the load completed with the first piece only
C13_Witness ==
    /\ pc = "vectorize"
    /\ num_samples = 2
    /\ Len(lines) = 2
    /\ Len(split(lines[2], TAB)) = 3
    /\ li = 1
    /\ Len(input_texts) = 1

\* the k-th piece of the file does not hold exactly three tab-separated fields
Malformed(k) == NumFields(Field(data, NEWLINE, k), TAB) # 3

\* the loading loop is about to process a malformed line
AtMalformedLine ==
    /\ pc = "load"
    /\ li < Min(num_samples, NumFields(data, NEWLINE) - 1)
    /\ Malformed(li + 1)

\* no sorted vocabulary, size, length, token index or tensor exists: the sizes,
\* which are assigned together with the sorted vocabularies, are not bound yet,
\* and neither are the lengths, the indices and the tensors
NothingBuilt ==
    /\ num_encoder_tokens = Unbound /\ num_decoder_tokens = Unbound
    /\ max_encoder_seq_length = Unbound /\ max_decoder_seq_length = Unbound
    /\ input_token_index = <<>> /\ target_token_index = <<>>
    /\ encoder_input_data = <<>> /\ decoder_input_data = <<>>
    /\ decoder_target_data = <<>>

\* C14: the first processed line that does not split on tab into exactly three
\* fields aborts the script with a ValueError at that line: the loader never
\* gets past a malformed line (it is neither skipped nor repaired), the abort
\* changes no data, nothing runs after it, and no vocabulary or tensor is built.
C14_AbortOnMalformedLine ==
    /\ [](\A k \in 1..li : ~Malformed(k))
    /\ []((pc = "error" /\ li < Min(num_samples, NumFields(data, NEWLINE) - 1)) =>
             /\ error = "ValueError"
             /\ Malformed(li + 1)
             /\ Len(input_texts) = li /\ Len(target_texts) = li
             /\ NothingBuilt)
    /\ [][AtMalformedLine =>
             /\ pc' = "error"
             /\ error' = "ValueError"
             /\ UNCHANGED <<dataVars, demoVars, frameVars, otherVars>>]_vars
    /\ [][pc # "error"]_vars

\* C14 witness: the first of two lines to load is malformed and the second is
\* well formed; the script stopped at the first with nothing loaded
C14_Witness ==
    /\ pc = "error"
    /\ error = "ValueError"
    /\ num_samples = 2
    /\ Len(lines) = 3
    /\ Len(split(lines[1], TAB)) # 3
    /\ Len(split(lines[2], TAB)) = 3
    /\ li = 0
    /\ input_texts = <<>>

\* the three tensors are allocated: np.zeros has run, and the tensors stay for
\* the rest of the notebook
Allocated ==
    /\ pc \notin {"read", "load", "index"}
    /\ num_encoder_tokens # Unbound
    /\ max_encoder_seq_length # Unbound
    /\ encoder_input_data # <<>>

\* n is the length of the longest of the texts
IsLongest(n, texts) ==
    /\ \E k \in 1..Len(texts) : Len(texts[k]) = n
    /\ \A k \in 1..Len(texts) : Len(texts[k]) <= n

\* the tensor has shape (n, T, w)
HasShape(tensor, n, T, w) ==
    /\ DOMAIN tensor = 0..(n - 1)
    /\ \A e \in DOMAIN tensor :
           /\ DOMAIN tensor[e] = 0..(T - 1)
           /\ \A s \in DOMAIN tensor[e] : DOMAIN tensor[e][s] = 0..(w - 1)

\* the element (e, s, k) lies in the tensor
InBounds(tensor, e, s, k) ==
    /\ e \in DOMAIN tensor
    /\ s \in DOMAIN tensor[e]
    /\ k \in DOMAIN tensor[e][s]

\* C15: the encoder tensor has shape (loaded pairs, longest input text, source
\* vocabulary size), the two decoder tensors have shape (loaded pairs, longest
\* target text with both markers, target vocabulary size), and every element
\* the vectorization loop writes for a character lies inside its tensor, so no
\* write raises an IndexError.
C15_ShapesAndBounds ==
    /\ error # "IndexError"
    /\ Allocated =>
           \E Tenc \in 0..(MaxChars + 1), Tdec \in 0..(MaxChars + 3) :
               /\ IsLongest(Tenc, input_texts)
               /\ IsLongest(Tdec, target_texts)
               /\ HasShape(encoder_input_data, Len(input_texts), Tenc,
                           Cardinality(CharsOf(input_texts)))
               /\ HasShape(decoder_input_data, Len(input_texts), Tdec,
                           Cardinality(CharsOf(target_texts)))
               /\ HasShape(decoder_target_data, Len(input_texts), Tdec,
                           Cardinality(CharsOf(target_texts)))
    /\ Allocated =>
           \A e \in 1..Len(input_texts) :
               /\ \A s \in 1..Len(input_texts[e]) :
                      InBounds(encoder_input_data, e - 1, s - 1,
                               input_token_index[input_texts[e][s]])
               /\ \A s \in 1..Len(target_texts[e]) :
                      /\ InBounds(decoder_input_data, e - 1, s - 1,
                                  target_token_index[target_texts[e][s]])
                      /\ s > 1 => InBounds(decoder_target_data, e - 1, s - 2,
                                           target_token_index[target_texts[e][s]])

\* C15 witness: two pairs whose input texts and whose target texts differ in
\* length are both vectorized
C15_Witness ==
    /\ pc = "vectorize"
    /\ i = 2
    /\ Len(input_texts) = 2
    /\ Len(input_texts[1]) < Len(input_texts[2])
    /\ Len(target_texts[1]) > Len(target_texts[2])

\* C16: for every data set that loads with at least one pair, no lookup of the
\* vectorization loop fails (no KeyError, the padding space included, and no
\* NameError for t), and the t the encoder padding of the next example reads is
\* the last timestep of that example's own input text.
C16_LookupsSucceed ==
    /\ error \notin {"KeyError", "NameError"}
    /\ (pc = "vectorize" /\ i < Len(input_texts)) =>
           /\ SPACE \in DOMAIN input_token_index
           /\ SPACE \in DOMAIN target_token_index
           /\ LoopVar(input_texts[i + 1], t) # Unbound
           /\ LoopVar(input_texts[i + 1], t) = Len(input_texts[i + 1]) - 1

\* reverse is the exact inverse of index, over the indices 0..n-1
IsInverse(reverse, index, n) ==
    /\ DOMAIN reverse = 0..(n - 1)
    /\ \A ch \in DOMAIN index : reverse[index[ch]] = ch
    /\ \A k \in DOMAIN reverse : index[reverse[k]] = k

\* the characters read back from an example's matrix: at each timestep the
\* target character of the arg-max of the row
ReadBack(m) == [s \in 1..Steps(m) |-> reverse_target_char_index[argmax(m[s - 1])]]

\* the text followed by spaces up to n characters
SpacePadded(text, n) == [s \in 1..n |-> IF s <= Len(text) THEN text[s] ELSE SPACE]

\* C17: once the sampling cell has run, the two reverse indices are the exact
\* inverses of the two token indices, and each example's rows of
\* decoder_input_data, read back through arg-max and the reverse index, give
\* the example's target text followed only by spaces.
C17_RoundTrip ==
    pc \in {"demo", "decode"} =>
        /\ IsInverse(reverse_input_char_index, input_token_index, num_encoder_tokens)
        /\ IsInverse(reverse_target_char_index, target_token_index, num_decoder_tokens)
        /\ \A e \in 1..Len(target_texts) :
               ReadBack(decoder_input_data[e - 1]) =
                   SpacePadded(target_texts[e], max_decoder_seq_length)

\* C17 witness: the reverse indices exist for two examples whose target texts
\* differ in length, the shorter one padded, with a letter in a target text
C17_Witness ==
    /\ pc = "demo"
    /\ Len(target_texts) = 2
    /\ Len(target_texts[1]) < Len(target_texts[2])
    /\ 97 \in Chars(target_texts[2])
    /\ DOMAIN reverse_target_char_index = 0..3

\* what decode_sequence only reads: its input tensor, the vocabulary indices
\* and the length cap
decodeInputs == <<encoder_input_data, input_token_index, target_token_index,
                  reverse_input_char_index, reverse_target_char_index,
                  max_decoder_seq_length, num_decoder_tokens, weights>>

\* C18: with a fixed trained model decode_sequence is deterministic and
\* history-independent: any two returned calls with equal input_seq returned
\* the same string, whatever calls ran in between; every call starts from the
\* start symbol, the encoder's states of its own input and an empty sentence;
\* and no step of a call changes the input tensor, the vocabulary indices or
\* max_decoder_seq_length.
C18_Deterministic ==
    /\ [](\A j \in DOMAIN calls : \A k \in DOMAIN calls :
              calls[j].input_seq = calls[k].input_seq =>
                  calls[j].decoded = calls[k].decoded)
    /\ [][(pc = "demo" /\ pc' = "decode") =>
              /\ input_seq' = <<encoder_input_data[seq_index]>>
              /\ target_seq' = OneHot(num_decoder_tokens, target_token_index[TAB])
              /\ states_value' \in encoder_model_predict(input_seq')
              /\ decoded_sentence' = <<>>]_vars
    /\ [][(pc = "decode" \/ pc' = "decode") => UNCHANGED decodeInputs]_vars

\* C18 witness: three calls returned, the first and the third with the same
\* input, the second with another input and another result
C18_Witness ==
    /\ Len(calls) = 3
    /\ calls[1].input_seq = calls[3].input_seq
    /\ calls[2].input_seq # calls[1].input_seq
    /\ calls[2].decoded # calls[1].decoded
    /\ calls[1].decoded = calls[3].decoded

====
